---- MODULE Spec2Model ----
(***************************************************************************)
(* Attrition prediction service: backend/app.py (Flask handlers and the    *)
(* start-up loading of the pickled bundle) and backend/save_model.py (the  *)
(* training script that writes the bundle).                                *)
(*                                                                         *)
(* Text is a sequence of one-character strings.  A Python float is the     *)
(* decimal m / 10^e, kept as the record [m, e] with no trailing zero.      *)
(* A probability is a whole number of PScale-ths.                          *)
(***************************************************************************)
EXTENDS Integers, Sequences, FiniteSets, TLC

VARIABLES
  pc,             \* "start" | "serving" | "crashed": position of the process
  file,           \* what lies at MODEL_PATH when the process starts
  model,          \* global model          (app.py:16)
  cat_features,   \* global cat_features   (app.py:17)
  feature_order,  \* global feature_order  (app.py:18)
  last,           \* the exchange being answered, None between requests
  prev,           \* the exchange answered before it (client-side record)
  pending         \* requests a scripted client still has to send

vars == <<pc, file, model, cat_features, feature_order, last, prev, pending>>

\* ------------------------------------------------------------------ bounds
MaxOvLen  == 2    \* longest Overtime text sent
MaxGapLen == 2    \* longest Promotion_Gap text sent
NumSeeds  == 2    \* distinct trained classifiers
PScale    == 10   \* probabilities are counted in PScale-ths

\* Python's None, and a Python list of names
None == [t |-> "None"]
PyList(s) == [t |-> "list", items |-> s]

Range(s) == {s[i] : i \in 1..Len(s)}

\* ------------------------------------------------------------------- text
EnDash == "u2013"   \* the one character U+2013 (app.py:79)
Hyphen == "-"       \* U+002D

Digits == {"0", "1", "2", "3", "4", "5", "6", "7", "8", "9"}

DigitVal(c) ==
  CASE c = "0" -> 0 [] c = "1" -> 1 [] c = "2" -> 2 [] c = "3" -> 3
    [] c = "4" -> 4 [] c = "5" -> 5 [] c = "6" -> 6 [] c = "7" -> 7
    [] c = "8" -> 8 [] c = "9" -> 9

DigitChar(d) ==
  CASE d = 0 -> "0" [] d = 1 -> "1" [] d = 2 -> "2" [] d = 3 -> "3"
    [] d = 4 -> "4" [] d = 5 -> "5" [] d = 6 -> "6" [] d = 7 -> "7"
    [] d = 8 -> "8" [] d = 9 -> "9"

\* all texts over alphabet A of length at most n
Texts(A, n) == UNION {[1..k -> A] : k \in 0..n}

\* str.replace(old, new) for one-character old and new: every occurrence
StrReplace(s, old, new) ==
  [i \in 1..Len(s) |-> IF s[i] = old THEN new ELSE s[i]]

\* str.strip() of blanks, as float() does before parsing
RECURSIVE LStrip(_)
LStrip(s) == IF s # <<>> /\ Head(s) = " " THEN LStrip(Tail(s)) ELSE s

RECURSIVE RStrip(_)
RStrip(s) ==
  IF s # <<>> /\ s[Len(s)] = " " THEN RStrip(SubSeq(s, 1, Len(s) - 1)) ELSE s

Strip(s) == RStrip(LStrip(s))

\* decimal digits of a natural number
RECURSIVE NatText(_)
NatText(n) ==
  IF n < 10 THEN <<DigitChar(n)>>
  ELSE Append(NatText(n \div 10), DigitChar(n % 10))

IntText(n) == IF n < 0 THEN <<"-">> \o NatText(0 - n) ELSE NatText(n)

\* value of a text of digits
RECURSIVE DigitsVal(_)
DigitsVal(s) ==
  IF s = <<>> THEN 0
  ELSE 10 * DigitsVal(SubSeq(s, 1, Len(s) - 1)) + DigitVal(s[Len(s)])

AllDigits(s) == \A i \in 1..Len(s) : s[i] \in Digits

\* a float without trailing zeros in its fraction
RECURSIVE Norm(_, _)
Norm(m, e) ==
  IF e > 0 /\ m % 10 = 0 THEN Norm(m \div 10, e - 1) ELSE [m |-> m, e |-> e]

RECURSIVE Pow10(_)
Pow10(e) == IF e = 0 THEN 1 ELSE 10 * Pow10(e - 1)

\* ------------------------------------------------------------ JSON values
JStr(s)    == [t |-> "str", s |-> s]
JInt(n)    == [t |-> "int", n |-> n]
JDec(m, e) == [t |-> "float", m |-> m, e |-> e]     \* the number m / 10^e
JNull      == [t |-> "null"]
JText(w)   == [t |-> "text", words |-> w]    \* a string body: words joined by blanks
JList(i)   == PyList(i)                      \* an array of strings
JObject(f) == [t |-> "object", f |-> f]

\* an exception and the text str(e) gives
Exc(type, text, detail) == [type |-> type, text |-> text, detail |-> detail]

\* repr of the float m / 10^e, e.g. 1.5, 2.0, -0.25
FloatText(m, e) ==
  LET a    == IF m < 0 THEN 0 - m ELSE m
      ip   == a \div Pow10(e)
      fp   == a % Pow10(e)
      ft   == NatText(fp)
      pad  == [i \in 1..(e - Len(ft)) |-> "0"]
      frac == IF e = 0 THEN <<"0">> ELSE pad \o ft
  IN (IF m < 0 THEN <<"-">> ELSE <<>>) \o NatText(ip) \o <<".">> \o frac

\* str(v) of a JSON value held in an object
PyStr(v) ==
  CASE v.t = "str"   -> v.s
    [] v.t = "int"   -> IntText(v.n)
    [] v.t = "float" -> FloatText(v.m, v.e)
    [] v.t = "null"  -> <<"N", "o", "n", "e">>

\* the float for integer digits ip and fraction digits fp, or ValueError
ParseParts(ip, fp, neg, s) ==
  IF AllDigits(ip) /\ AllDigits(fp) /\ Len(ip) + Len(fp) > 0
  THEN [ok |-> TRUE,
        val |-> Norm((IF neg THEN -1 ELSE 1) * DigitsVal(ip \o fp), Len(fp))]
  ELSE [ok |-> FALSE,
        exc |-> Exc("ValueError", "could not convert string to float", s)]

\* index of the first point of u, Len(u) + 1 when it has none
FirstDot(u) ==
  CHOOSE i \in 1..(Len(u) + 1) :
    /\ i = Len(u) + 1 \/ u[i] = "."
    /\ \A j \in 1..(i - 1) : u[j] # "."

\* the digits before the first point and the text after it
ParseUnsigned(u, neg, s) ==
  ParseParts(SubSeq(u, 1, FirstDot(u) - 1), SubSeq(u, FirstDot(u) + 1, Len(u)),
             neg, s)

ParseSigned(t, s) ==
  ParseUnsigned(IF t # <<>> /\ Head(t) \in {"-", "+"} THEN Tail(t) ELSE t,
                t # <<>> /\ Head(t) = "-", s)

\* errors='coerce' parsing: a text that is no number becomes 0.0
ParseFloatCoerce(s) ==
  [ok |-> TRUE,
   val |-> IF ParseSigned(Strip(s), s).ok THEN ParseSigned(Strip(s), s).val
           ELSE Norm(0, 0)]

\* float(text): blanks stripped, an optional sign, then digits with at most
\* one point and at least one digit.  (Exponents, inf and nan need letters
\* that the texts sent here never hold.)
ParseFloat(s) == ParseSigned(Strip(s), s)

\* float(v) of a JSON value held in an object
PyFloat(v) ==
  CASE v.t = "str"   -> ParseFloat(v.s)
    [] v.t = "int"   -> [ok |-> TRUE, val |-> Norm(v.n, 0)]
    [] v.t = "float" -> [ok |-> TRUE, val |-> Norm(v.m, v.e)]
    [] v.t = "null"  ->
         [ok |-> FALSE,
          exc |-> Exc("TypeError",
                      "float() argument must be a string or a real number",
                      <<>>)]

\* `not data` is false for these
PyTruthy(v) ==
  CASE v.t = "null"   -> FALSE
    [] v.t = "int"    -> v.n # 0
    [] v.t = "text"   -> v.words # <<>>
    [] v.t = "list"   -> v.items # <<>>
    [] v.t = "object" -> DOMAIN v.f # {}

\* `field in data` is defined for containers and strings only
PyIterable(v) == v.t \in {"text", "list", "object"}

\* `field in data`: key of a dict, element of a list, substring of a string
PyContains(v, field) ==
  CASE v.t = "object" -> field \in DOMAIN v.f
    [] v.t = "list"   -> field \in Range(v.items)
    [] v.t = "text"   -> field \in Range(v.words)

\* ------------------------------------------------- save_model.py: the bundle
\* technical names the survey columns are renamed to, in order
ColumnMapping ==
  <<"Department", "Overtime", "Promotion_Gap", "Job_Satisfaction",
    "AI_Automation_Risk", "Recent_Layoffs", "Job_Security", "Market_Demand",
    "Attrition">>

\* the target column left among the features
TrainingColumnsWithTarget == PyList(ColumnMapping)

\* X = df.drop('Attrition', axis=1); list(X.columns)
TrainingColumns ==
  PyList(SelectSeq(ColumnMapping, LAMBDA c : c # "Attrition"))

TrainedCatFeatures ==
  PyList(<<"Department", "Overtime", "Job_Satisfaction", "AI_Automation_Risk",
           "Recent_Layoffs", "Job_Security", "Market_Demand">>)

\* A fitted classifier, opaque to the service: which trees it learnt (seed),
\* whether get_feature_importance() answers, whether predict() raises.
Models ==
  [seed : 0..(NumSeeds - 1), importance : BOOLEAN, broken : {FALSE}]
    \cup {[seed |-> 0, importance |-> TRUE, broken |-> TRUE]}

\* model_data, as pickled
SavedBundle(m) ==
  [model |-> m, cat_features |-> TrainedCatFeatures,
   feature_order |-> TrainingColumns]

BundleKeys == <<"model", "cat_features", "feature_order">>

\* ------------------------------------------------------------ what is on disk
\* absent:     os.path.exists(MODEL_PATH) is false
\* vanishes:   exists() is true, the file is gone when open() runs
\* unreadable: open() or pickle.load() raises (permissions, truncated pickle)
\* pickle:     pickle.load() returns a dict with these keys
FileAbsent     == [k |-> "absent"]
FileVanishes   == [k |-> "vanishes"]
FileUnreadable == [k |-> "unreadable"]
FilePickle(d)  == [k |-> "pickle", data |-> d]

\* d restricted to the keys in K
Restrict(d, K) == [x \in K |-> d[x]]

Files ==
  {FileAbsent, FileVanishes, FileUnreadable}
    \cup {FilePickle(Restrict(SavedBundle(m), K)) :
            m \in Models, K \in SUBSET Range(BundleKeys)}

\* ------------------------------------------------------- app.py: load_model
\* The globals after load_model() has run on file f, and the exception it
\* raised (None when it returned).  g holds the globals before the call.
RECURSIVE LoadKeys(_, _, _)
LoadKeys(d, g, i) ==
  IF i > Len(BundleKeys) THEN g @@ [exc |-> None]
  ELSE IF BundleKeys[i] \notin DOMAIN d
       THEN g @@ [exc |-> Exc("KeyError", BundleKeys[i], <<>>)]
       ELSE LoadKeys(d, [g EXCEPT ![BundleKeys[i]] = d[BundleKeys[i]]], i + 1)

LoadModel(f, g) ==
  CASE f.k = "absent" ->
         g @@ [exc |-> Exc("FileNotFoundError", "Model file not found", <<>>)]
    [] f.k = "vanishes" ->
         g @@ [exc |-> Exc("FileNotFoundError", "No such file or directory", <<>>)]
    [] f.k = "unreadable" ->
         g @@ [exc |-> Exc("UnpicklingError", "could not load pickle", <<>>)]
    [] f.k = "pickle" -> LoadKeys(f.data, g, 1)

\* start-up with a bare `except:` and start-up with no handler at all
StartupCatchesEverything(exc) == TRUE
StartupCatchesNothing(exc) == FALSE

\* the exceptions the start-up code swallows (app.py:42)
StartupCatches(exc) == exc.type = "FileNotFoundError"

\* module import: load_model() under try/except FileNotFoundError
Startup ==
  /\ pc = "start"
  /\ LET g == [model |-> model, cat_features |-> cat_features,
               feature_order |-> feature_order]
         r == LoadModel(file, g)
     IN /\ model' = r.model
        /\ cat_features' = r.cat_features
        /\ feature_order' = r.feature_order
        /\ pc' = IF r.exc = None \/ StartupCatches(r.exc)
                 THEN "serving" ELSE "crashed"
  /\ UNCHANGED <<file, last, prev, pending>>

\* ------------------------------------------------- the classifier (CatBoost)
\* The fitted classifier is a fixed function of the frame it is given; it
\* tells apart any two category texts and any two column orders.
CharCode(c) == IF c = EnDash THEN 3 ELSE IF c = Hyphen THEN 2 ELSE 1

RECURSIVE TextCode(_)
TextCode(s) ==
  IF s = <<>> THEN 0
  ELSE Len(s) * CharCode(s[Len(s)]) + TextCode(SubSeq(s, 1, Len(s) - 1))

CellCode(v) == IF v.t = "str" THEN TextCode(v.s) ELSE v.m + v.e

RECURSIVE FrameCode(_)
FrameCode(cols) ==
  IF cols = <<>> THEN 0
  ELSE Len(cols) * CellCode(cols[Len(cols)][2])
         + FrameCode(SubSeq(cols, 1, Len(cols) - 1))

\* numpy scalars, as the classifier returns them
NpInt(n)   == [t |-> "int64", n |-> n]
NpFloat(v) == [t |-> "float64", v |-> v]

\* model.predict_proba(input_data)[0]: <<P(stay), P(leave)>> in PScale-ths
ModelPredictProba(m, cols) ==
  LET leave == (m.seed + FrameCode(cols)) % (PScale + 1)
  IN <<NpFloat(PScale - leave), NpFloat(leave)>>

\* model.predict(input_data)[0]: the class label, 0 or 1
ModelPredict(m, cols) ==
  IF 2 * ModelPredictProba(m, cols)[2].v > PScale THEN NpInt(1) ELSE NpInt(0)

\* model.get_feature_importance().tolist(): one score per trained column
ModelImportance(m) == [i \in 1..Len(TrainingColumns.items) |-> (m.seed + i) % 3]

\* dict(zip(names, scores)): pairs up to the shorter of the two
DictZip(names, scores) ==
  LET n == IF Len(names) < Len(scores) THEN Len(names) ELSE Len(scores)
  IN [c \in {names[i] : i \in 1..n} |->
        scores[CHOOSE i \in 1..n : names[i] = c /\ \A j \in (i + 1)..n : names[j] # c]]

\* int(prediction), float(p): numpy scalars to Python numbers
PyInt(x)      == x.n
PyFloatOf(x)  == x.v
\* max(probability): the first of the largest elements
NpMax(p) == IF p[2].v > p[1].v THEN p[2] ELSE p[1]

\* ----------------------------------------------------- app.py: the responses
Message(text, detail) == [text |-> text, detail |-> detail]
ErrorReply(status, msg) == [status |-> status, body |-> [error |-> msg]]

\* what a handler run leaves behind: the response, the calls it made on the
\* model, the frame it fed (None when it built none) and the class of the
\* exception whose traceback it printed ("" when it printed none)
Outcome(resp, calls, fed) ==
  [resp |-> resp, calls |-> calls, fed |-> fed, logged |-> ""]

\* the classes raised in predict(); each derives from Exception
ExceptionClasses ==
  {"BadRequest", "UnsupportedMediaType", "TypeError", "KeyError",
   "ValueError", "CatBoostError"}

\* the handler leaves without a response: the exception goes to the host
Unhandled(exc) == [status |-> 0, body |-> [unhandled |-> exc.type]]

HandlesOnlyValueError(exc) == exc.type = "ValueError"

\* except Exception as e
Handles(exc) == exc.type \in ExceptionClasses

\* an exception raised inside the try block: print, traceback, and
\* return jsonify({'error': str(e)}), 500
Caught(exc, calls, fed) ==
  IF Handles(exc)
  THEN [Outcome(ErrorReply(500, Message(exc.text, exc.detail)), calls, fed)
          EXCEPT !.logged = exc.type]
  ELSE Outcome(Unhandled(exc), calls, fed)

\* the two labels swapped
PredictionLabelSwapped(prediction) ==
  IF prediction.n = 1 THEN "No (Likely to Stay)" ELSE "Yes (Likely to Leave)"

\* 'Yes (Likely to Leave)' if prediction == 1 else 'No (Likely to Stay)'
PredictionLabel(prediction) ==
  IF prediction.n = 1 THEN "Yes (Likely to Leave)" ELSE "No (Likely to Stay)"

\* the probability of leaving taken for the confidence
ConfidenceOfLeave(probability) == PyFloatOf(probability[2])

\* float(max(probability))
Confidence(probability) == PyFloatOf(NpMax(probability))

\* the result dict (app.py:109-118)
Result(prediction, probability, importance) ==
  [prediction |-> PyInt(prediction),
   prediction_label |-> PredictionLabel(prediction),
   probability |-> [stay  |-> PyFloatOf(probability[1]),
                   leave |-> PyFloatOf(probability[2])],
   confidence |-> Confidence(probability),
   feature_importance |-> importance]

\* the columns of the one-row DataFrame, in the order they are evaluated
RowColumns ==
  <<"Department", "Overtime", "Promotion_Gap", "Job_Satisfaction",
    "AI_Automation_Risk", "Recent_Layoffs", "Job_Security", "Market_Demand">>

\* str.replace(old, new, 1): only the first en dash is rewritten
NormalizeFirstOnly(s) ==
  [i \in 1..Len(s) |->
     IF s[i] = EnDash /\ \A j \in 1..(i - 1) : s[j] # EnDash
     THEN Hyphen ELSE s[i]]

\* str(data['Overtime']).replace(en dash, hyphen)
NormalizeOvertime(s) == StrReplace(s, EnDash, Hyphen)

\* the float column of the frame
FloatCell(f) == IF f.ok THEN [ok |-> TRUE, val |-> JDec(f.val.m, f.val.e)] ELSE f

\* the value stored under column col, from the raw value v
Coerce(col, v) ==
  CASE col = "Promotion_Gap" -> FloatCell(PyFloat(v))
    [] col = "Overtime" -> [ok |-> TRUE, val |-> JStr(NormalizeOvertime(PyStr(v)))]
    [] OTHER -> [ok |-> TRUE, val |-> JStr(PyStr(v))]

\* data[col], then its coercion
Cell(data, col) ==
  IF data.t # "object"
  THEN [ok |-> FALSE,
        exc |-> Exc("TypeError", "indices must be integers", <<>>)]
  ELSE IF col \notin DOMAIN data.f
       THEN [ok |-> FALSE, exc |-> Exc("KeyError", col, <<>>)]
       ELSE Coerce(col, data.f[col])

\* the dict of cells, or the exception of the first cell that raised
RowOf(cells) ==
  IF \E i \in DOMAIN cells : ~cells[i].ok
  THEN [ok |-> FALSE,
        exc |-> cells[CHOOSE i \in DOMAIN cells :
                        /\ ~cells[i].ok
                        /\ \A j \in 1..(i - 1) : cells[j].ok].exc]
  ELSE [ok |-> TRUE,
        val |-> [c \in Range(RowColumns) |->
                   cells[CHOOSE i \in DOMAIN cells : RowColumns[i] = c].val]]

\* pd.DataFrame([{...}]): the first cell that raises ends the construction
BuildRow(data) ==
  RowOf([i \in 1..Len(RowColumns) |-> Cell(data, RowColumns[i])])

\* input_data[feature_order]
Reorder(row, fo) ==
  IF \E i \in 1..Len(fo.items) : fo.items[i] \notin DOMAIN row
  THEN [ok |-> FALSE,
        exc |-> Exc("KeyError", "not in index",
                    SelectSeq(fo.items, LAMBDA c : c \notin DOMAIN row))]
  ELSE [ok |-> TRUE,
        val |-> [i \in 1..Len(fo.items) |-> <<fo.items[i], row[fo.items[i]]>>]]

\* feature_importance: the dict, or None when the lookup raised
ImportanceOf(m, fo) ==
  IF m.importance
  THEN [t |-> "dict", d |-> DictZip(fo.items, ModelImportance(m))]
  ELSE None

\* app.py:96-121: the two model calls, the importance lookup, the result
Infer(m, fo, cols) ==
  IF m.broken
  THEN Caught(Exc("CatBoostError", "prediction failed", <<>>), <<"predict">>,
              [t |-> "frame", cols |-> cols])
  ELSE Outcome([status |-> 200,
                body |-> Result(ModelPredict(m, cols),
                                ModelPredictProba(m, cols),
                                ImportanceOf(m, fo))],
               <<"predict", "predict_proba", "get_feature_importance">>,
               [t |-> "frame", cols |-> cols])

\* --------------------------------------------------------------- requests
\* A request is its Content-Type and its body.  A body is either bytes that
\* are no JSON document ("bad": malformed, "empty": no bytes at all) or a
\* JSON value.
RawBad   == [t |-> "bad"]
RawEmpty == [t |-> "empty"]

Request(ctype, body) == [ctype |-> ctype, body |-> body]

\* request.json.  With a JSON Content-Type the body is parsed, and a body
\* that does not parse raises werkzeug's BadRequest.  With another
\* Content-Type the installed Flask either returns None (silent) or raises.
GetJson(req, silent) ==
  IF req.ctype # "json"
  THEN IF silent
       THEN [ok |-> TRUE, val |-> JNull]
       ELSE [ok |-> FALSE,
             exc |-> Exc("UnsupportedMediaType",
                         "415 Unsupported Media Type", <<>>)]
  ELSE IF req.body.t \in {"bad", "empty"}
       THEN [ok |-> FALSE,
             exc |-> Exc("BadRequest",
                         "400 Bad Request: Failed to decode JSON object", <<>>)]
       ELSE [ok |-> TRUE, val |-> req.body]

\* fail-fast validation: only the first absent field is reported
MissingFieldsFirstOnly(fo, data) ==
  IF \A i \in 1..Len(fo.items) : PyContains(data, fo.items[i])
  THEN <<>>
  ELSE <<Head(SelectSeq(fo.items, LAMBDA field : ~PyContains(data, field)))>>

\* [field for field in required_fields if field not in data]
MissingFields(fo, data) ==
  SelectSeq(fo.items, LAMBDA field : ~PyContains(data, field))

\* app.py:91-121, once the columns are reordered
InferFrame(m, fo, frame) ==
  IF ~frame.ok THEN Caught(frame.exc, <<>>, None) ELSE Infer(m, fo, frame.val)

\* app.py:88-89, once the row is built
InferRow(m, fo, row) ==
  IF ~row.ok THEN Caught(row.exc, <<>>, None)
  ELSE InferFrame(m, fo, Reorder(row.val, fo))

\* app.py:76-121, once validation has passed
BuildAndInfer(m, fo, data) == InferRow(m, fo, BuildRow(data))

\* app.py:68-121: validation of the parsed body, then inference
Validate(m, fo, data, missing_fields) ==
  IF missing_fields # <<>>
  THEN Outcome(ErrorReply(400,
                 Message("Missing required fields: ", missing_fields)),
               <<>>, None)
  ELSE BuildAndInfer(m, fo, data)

\* app.py:63-121, for the value request.json returned
HandleData(m, fo, data) ==
  IF ~PyTruthy(data)
  THEN Outcome(ErrorReply(400, Message("No data provided in request", <<>>)),
               <<>>, None)
  ELSE IF fo.items # <<>> /\ ~PyIterable(data)
  THEN Caught(Exc("TypeError", "argument is not iterable", <<>>), <<>>, None)
  ELSE Validate(m, fo, data, MissingFields(fo, data))

\* app.py:60-128, for the outcome of request.json
HandleJson(m, fo, j) ==
  IF ~j.ok THEN Caught(j.exc, <<>>, None) ELSE HandleData(m, fo, j.val)

\* predict(): the whole handler, for globals m and fo
PredictHandler(m, fo, req, silent) ==
  IF m = None \/ fo = None
  THEN Outcome(ErrorReply(500,
                 Message("Model not loaded. Please check server logs.", <<>>)),
               <<>>, None)
  ELSE HandleJson(m, fo, GetJson(req, silent))

\* health_check()
HealthReply(m) ==
  [status |-> 200, body |-> [status |-> "healthy", model_loaded |-> m # None]]

\* get_features(): the hand-written schema
FeatureSchema ==
  [Department         |-> [type |-> "categorical"],
   Overtime           |-> [type |-> "categorical"],
   Promotion_Gap      |-> [type |-> "numeric"],
   Job_Satisfaction   |-> [type |-> "categorical"],
   AI_Automation_Risk |-> [type |-> "categorical"],
   Recent_Layoffs     |-> [type |-> "categorical"],
   Job_Security       |-> [type |-> "categorical"],
   Market_Demand      |-> [type |-> "categorical"]]

FeaturesReply == [status |-> 200, body |-> [features |-> FeatureSchema]]

\* ------------------------------------------------- the requests clients send
OvAlphabet  == {"1", EnDash, Hyphen}
GapAlphabet == {"3", ".", "-", "a", " "}

\* "1-10 hours" written with an en dash and with a hyphen
OvEnDashForm == <<"1", EnDash, "1", "0", " ", "h", "o", "u", "r", "s">>
OvHyphenForm == <<"1", Hyphen, "1", "0", " ", "h", "o", "u", "r", "s">>

OvertimeTexts == Texts(OvAlphabet, MaxOvLen) \cup {OvEnDashForm, OvHyphenForm}

OvertimeValues == {JStr(s) : s \in OvertimeTexts} \cup {JInt(0)}

GapValues ==
  {JStr(s) : s \in Texts(GapAlphabet, MaxGapLen) \cup {<<"a", "b", "c">>}}
    \cup {JInt(0), JInt(2), JInt(-1), JDec(15, 1), JDec(20, 1), JNull}

DeptValues == {JStr(<<"S">>), JStr(<<"R", EnDash, "D">>), JInt(7)}

DefaultFields ==
  [c \in Range(RowColumns) |->
     CASE c = "Promotion_Gap" -> JInt(2)
       [] c = "Overtime"      -> JStr(<<"0">>)
       [] OTHER               -> JStr(<<"N", "o">>)]

\* every field present, Department / Overtime / Promotion_Gap varied
FullObjects ==
  {JObject([DefaultFields EXCEPT !["Department"] = d, !["Overtime"] = o,
                                 !["Promotion_Gap"] = g]) :
     d \in DeptValues, o \in OvertimeValues, g \in GapValues}

\* any subset of the fields present, the empty object included
PartialObjects ==
  {JObject(Restrict(DefaultFields, K)) : K \in SUBSET Range(RowColumns)}

\* every field and one the service does not know
ExtraObject == JObject(("Extra" :> JStr(<<"x">>)) @@ DefaultFields)

Bodies ==
  {RawBad, RawEmpty, JNull, JInt(0), JInt(5),
   JText(<<>>), JText(<<"abc">>), JText(RowColumns),
   JList(<<>>), JList(<<"x">>), JList(RowColumns), ExtraObject}
    \cup PartialObjects \cup FullObjects

Requests ==
  {Request("json", b) : b \in Bodies}
    \cup {Request("other", b) :
            b \in {RawEmpty, JObject(DefaultFields),
                   JObject(Restrict(DefaultFields, {"Department"}))}}

\* ---------------------------------------------------------------- the service
Init ==
  /\ pc = "start"
  /\ file \in Files
  /\ model = None
  /\ cat_features = None
  /\ feature_order = None
  /\ last = None
  /\ prev = None
  /\ pending = <<>>

\* GET /api/health
HealthCheck ==
  /\ pc = "serving" /\ last = None
  /\ last' = [op |-> "health", resp |-> HealthReply(model), calls |-> <<>>]
  /\ UNCHANGED <<pc, file, model, cat_features, feature_order, prev, pending>>

\* GET /api/features
GetFeatures ==
  /\ pc = "serving" /\ last = None
  /\ last' = [op |-> "features", resp |-> FeaturesReply, calls |-> <<>>]
  /\ UNCHANGED <<pc, file, model, cat_features, feature_order, prev, pending>>

ExchangeOf(req, silent, out) ==
  [op |-> "predict", req |-> req, silent |-> silent,
   resp |-> out.resp, calls |-> out.calls, fed |-> out.fed,
   logged |-> out.logged]

\* the record of one predict exchange
Exchange(req, silent) ==
  ExchangeOf(req, silent, PredictHandler(model, feature_order, req, silent))

\* POST /api/predict
Predict ==
  /\ pc = "serving" /\ last = None
  /\ \E req \in Requests, silent \in BOOLEAN :
       /\ silent => req.ctype # "json"
       /\ last' = Exchange(req, silent)
  /\ UNCHANGED <<pc, file, model, cat_features, feature_order, prev, pending>>

\* the response leaves; the server waits for the next request
Send ==
  /\ pc = "serving" /\ last # None
  /\ last' = None
  /\ UNCHANGED <<pc, file, model, cat_features, feature_order, prev, pending>>

Next == Startup \/ HealthCheck \/ GetFeatures \/ Predict \/ Send

Spec == Init /\ [][Next]_vars

\* ------------------------------------------- two clients, one Overtime apart
\* s and t are the same text but for en dashes written as hyphens or back
DashVariants(s, t) ==
  /\ Len(s) = Len(t)
  /\ \A i \in 1..Len(s) : s[i] = t[i] \/ {s[i], t[i]} = {EnDash, Hyphen}

FullRequest(d, o, g) ==
  Request("json", JObject([DefaultFields EXCEPT !["Department"] = d,
                             !["Overtime"] = o, !["Promotion_Gap"] = g]))

\* a pair of requests that differ at most in the dashes of Overtime
TwinScripts ==
  {<<FullRequest(d, JStr(s), g), FullRequest(d, JStr(t), g)>> :
     <<s, t>> \in {p \in OvertimeTexts \X OvertimeTexts : DashVariants(p[1], p[2])},
     d \in DeptValues,
     g \in {JInt(2), JStr(<<"3">>), JStr(<<"a">>)}}

InitTwin ==
  /\ pc = "start"
  /\ file \in {FilePickle(SavedBundle(m)) : m \in Models}
  /\ model = None
  /\ cat_features = None
  /\ feature_order = None
  /\ last = None
  /\ prev = None
  /\ pending \in TwinScripts

\* POST /api/predict with the next request of the script
PredictScripted ==
  /\ pc = "serving" /\ last = None /\ pending # <<>>
  /\ last' = Exchange(Head(pending), FALSE)
  /\ pending' = Tail(pending)
  /\ UNCHANGED <<pc, file, model, cat_features, feature_order, prev>>

\* the response leaves and the client keeps it
SendScripted ==
  /\ pc = "serving" /\ last # None /\ pending # <<>>
  /\ prev' = last
  /\ last' = None
  /\ UNCHANGED <<pc, file, model, cat_features, feature_order, pending>>

NextTwin == Startup \/ PredictScripted \/ SendScripted

SpecTwin == InitTwin /\ [][NextTwin]_vars

\* ================================================================= claims
\* the check predict() itself makes before it reads the request
Loaded == model # None /\ feature_order # None

Answered(op) == last # None /\ last.op = op

\* a JSON object sent with a JSON Content-Type
SentObject(req) == req.ctype = "json" /\ req.body.t = "object"

\* the names of feature_order a sent object does not hold
AbsentFrom(req) == {c \in Range(feature_order.items) : c \notin DOMAIN req.body.f}

IsError(resp) == DOMAIN resp.body = {"error"}

\* the error of resp is the missing-fields message naming exactly the set A
NamesExactly(resp, A) ==
  /\ IsError(resp)
  /\ resp.body.error.text = "Missing required fields: "
  /\ Range(resp.body.error.detail) = A
  /\ Len(resp.body.error.detail) = Cardinality(A)

\* the cell of column c in the frame the model was given
FedCell(x, c) == x.fed.cols[CHOOSE i \in 1..Len(x.fed.cols) : x.fed.cols[i][1] = c][2]

\* C1 (as stated): while a bundle is loaded, every predict request whose body
\* lacks one or more names of feature_order is answered 400 with a message
\* naming every absent field, and the model is not invoked.
C1_AnyBodyLackingFields ==
  (Answered("predict") /\ Loaded /\ SentObject(last.req)
     /\ AbsentFrom(last.req) # {})
    => /\ last.resp.status = 400
       /\ NamesExactly(last.resp, AbsentFrom(last.req))
       /\ last.calls = <<>>

\* C1 (amended): while a bundle is loaded, every predict request whose body
\* is a non-empty JSON object lacking one or more names of feature_order is
\* answered 400 with a message naming every absent field, each once, and the
\* model is not invoked.
C1_MissingFieldsAllNamed ==
  (Answered("predict") /\ Loaded /\ SentObject(last.req)
     /\ DOMAIN last.req.body.f # {} /\ AbsentFrom(last.req) # {})
    => /\ last.resp.status = 400
       /\ NamesExactly(last.resp, AbsentFrom(last.req))
       /\ last.calls = <<>>

\* a request lacking three fields was answered with all three named
C1_Witness ==
  /\ Answered("predict") /\ Loaded /\ SentObject(last.req)
  /\ DOMAIN last.req.body.f # {}
  /\ Cardinality(AbsentFrom(last.req)) = 3
  /\ last.resp.status = 400
  /\ Len(last.resp.body.error.detail) = 3

\* C2: with the model file absent at start-up the process keeps serving with
\* nothing loaded; every health check answers 200, healthy, model_loaded
\* false; every predict answers 500 with an error and no model call.
C2_DegradedMode ==
  (file.k = "absent" /\ pc # "start")
    => /\ pc = "serving"
       /\ model = None
       /\ Answered("health")
            => last.resp = [status |-> 200,
                            body |-> [status |-> "healthy",
                                      model_loaded |-> FALSE]]
       /\ Answered("predict")
            => /\ last.resp.status = 500
               /\ IsError(last.resp)
               /\ last.calls = <<>>
               /\ last.fed = None

\* without a model file, a complete and valid request was answered 500
C2_Witness ==
  /\ file.k = "absent"
  /\ Answered("predict")
  /\ last.req = Request("json", JObject(DefaultFields))
  /\ last.resp.status = 500

\* the file is there but cannot be loaded whole
Defective(f) ==
  \/ f.k = "unreadable"
  \/ f.k = "pickle" /\ DOMAIN f.data # Range(BundleKeys)

\* C3: a file that is present but fails to load (unreadable, or a bundle
\* without one of its three keys) ends start-up, so no request is handled;
\* whenever a request is handled, model, cat_features and feature_order are
\* all loaded or all unset.
C3_NoPartialBundle ==
  /\ (Defective(file) /\ pc # "start") => (pc = "crashed" /\ last = None)
  /\ last # None
       => \/ model = None /\ cat_features = None /\ feature_order = None
          \/ model # None /\ cat_features # None /\ feature_order # None

\* a bundle without feature_order: model was assigned, start-up ended
C3_Witness ==
  /\ file.k = "pickle"
  /\ pc = "crashed"
  /\ model # None /\ cat_features # None /\ feature_order = None

\* C4 (as stated): while a bundle is loaded, a predict request whose body is
\* empty or does not parse as JSON is answered 400 with an error, and the
\* model is not invoked.
C4_UnparseableIsClientError ==
  (Answered("predict") /\ Loaded /\ last.req.body.t \in {"bad", "empty"})
    => /\ last.resp.status = 400
       /\ IsError(last.resp)
       /\ last.calls = <<>>

\* a sent object holding every name of feature_order
Complete(req) == SentObject(req) /\ AbsentFrom(req) = {}

\* "numeric-looking": between blanks, an optional sign, then digits around
\* at most one point, with at least one digit
NumericLooking(s) ==
  \E a \in 1..Len(s), b \in 1..Len(s) :
    /\ a <= b
    /\ \A i \in 1..Len(s) : (i < a \/ i > b) => s[i] = " "
    /\ s[a] # " " /\ s[b] # " "
    /\ LET first  == IF s[a] \in {"+", "-"} THEN a + 1 ELSE a
           points == {i \in first..b : s[i] = "."}
       IN /\ Cardinality(points) <= 1
          /\ \A i \in (first..b) \ points : s[i] \in Digits
          /\ (first..b) \ points # {}

IsNumber(v) == v.t \in {"int", "float"}

C5_WitnessAccepted ==
  /\ Answered("predict") /\ Loaded /\ Complete(last.req)
  /\ last.req.body.f["Promotion_Gap"] = JStr(<<" ", "3">>)
  /\ last.resp.status = 200
  /\ FedCell(last, "Promotion_Gap") = JDec(3, 0)

\* C6: once the model-loaded check has passed, every predict call ends in a
\* response with status 200, 400 or 500; a response that is not 200 is an
\* {error} body; an exception raised on the way is answered 500 with its
\* message, whether it came from parsing, validation, coercion or the model.
C6_EveryExceptionAnswered ==
  (Answered("predict") /\ Loaded)
    => /\ last.resp.status \in {200, 400, 500}
       /\ last.resp.status # 200 => IsError(last.resp)
       /\ last.resp.status = 200 => "prediction" \in DOMAIN last.resp.body
       /\ last.logged # "" => last.resp.status = 500
       /\ (last.req.ctype = "json" /\ last.req.body.t = "bad")
            => /\ last.logged = "BadRequest"
               /\ last.resp.body.error.text
                    = "400 Bad Request: Failed to decode JSON object"
       /\ (last.req.ctype = "json" /\ last.req.body.t = "int"
             /\ last.req.body.n # 0)
            => last.logged = "TypeError"
       /\ (Complete(last.req) /\ model.broken
             /\ IsNumber(last.req.body.f["Promotion_Gap"]))
            => /\ last.logged = "CatBoostError"
               /\ last.resp.body.error.text = "prediction failed"

\* the classifier raised inside predict() and the client got a 500
C6_Witness ==
  /\ Answered("predict") /\ Loaded
  /\ last.calls = <<"predict">>
  /\ last.logged = "CatBoostError"
  /\ last.resp.status = 500

\* C7: in every 200 response of predict, prediction is the integer of the
\* label model.predict gave for the frame, and prediction_label is
\* "Yes (Likely to Leave)" exactly when prediction is 1, else
\* "No (Likely to Stay)".
C7_LabelMatchesPrediction ==
  (Answered("predict") /\ last.resp.status = 200)
    => /\ last.resp.body.prediction = ModelPredict(model, last.fed.cols).n
       /\ last.resp.body.prediction_label = "Yes (Likely to Leave)"
            <=> last.resp.body.prediction = 1
       /\ last.resp.body.prediction # 1
            => last.resp.body.prediction_label = "No (Likely to Stay)"

C7_Witness ==
  /\ Answered("predict") /\ last.resp.status = 200
  /\ last.resp.body.prediction = 1
  /\ last.resp.body.prediction_label = "Yes (Likely to Leave)"

\* C8: in every 200 response of predict, probability.stay and
\* probability.leave are the first and second element of the vector
\* model.predict_proba gave for the frame, and confidence is the larger.
C8_ProbabilityAndConfidence ==
  (Answered("predict") /\ last.resp.status = 200)
    => LET p == ModelPredictProba(model, last.fed.cols)
           r == last.resp.body
       IN /\ r.probability.stay = p[1].v
          /\ r.probability.leave = p[2].v
          /\ r.confidence >= r.probability.stay
          /\ r.confidence >= r.probability.leave
          /\ r.confidence \in {r.probability.stay, r.probability.leave}

\* a response whose confidence is the probability of staying
C8_Witness ==
  /\ Answered("predict") /\ last.resp.status = 200
  /\ last.resp.body.probability.stay > last.resp.body.probability.leave
  /\ last.resp.body.confidence = last.resp.body.probability.stay

\* C9: two predict requests that differ only in writing Overtime with en
\* dashes or with hyphens feed the model the same frame and get the same
\* response; the Overtime fed has a hyphen wherever an en dash was sent and
\* is otherwise the text sent; normalizing it again changes nothing; no
\* other column is touched (Department keeps its en dash).
C9_DashTwinsAgree ==
  (prev # None /\ last # None)
    => /\ prev.fed = last.fed
       /\ prev.resp = last.resp
       /\ prev.calls = last.calls
       /\ last.fed # None
            => LET sent == last.req.body.f["Overtime"].s
                   cell == FedCell(last, "Overtime").s
               IN /\ Len(cell) = Len(sent)
                  /\ \A i \in 1..Len(sent) :
                       cell[i] = IF sent[i] = EnDash THEN Hyphen ELSE sent[i]
                  /\ NormalizeOvertime(cell) = cell
                  /\ FedCell(last, "Department")
                       = JStr(PyStr(last.req.body.f["Department"]))

\* "1-10 hours" sent with an en dash, then with a hyphen, both answered 200
C9_Witness ==
  /\ prev # None /\ last # None
  /\ prev.req.body.f["Overtime"] = JStr(OvEnDashForm)
  /\ last.req.body.f["Overtime"] = JStr(OvHyphenForm)
  /\ prev.req.body.f["Department"] = JStr(<<"R", EnDash, "D">>)
  /\ prev.resp.status = 200 /\ last.resp.status = 200

\* C10: with a bundle loaded, feature_order is the eight mapped columns other
\* than Attrition; GET /api/features describes exactly those names; the frame
\* predict feeds holds exactly those columns in that order; and no complete
\* request ends in a KeyError (a column asked for that is not there).
C10_FeatureSetsAgree ==
  (pc = "serving" /\ feature_order # None)
    => /\ Len(feature_order.items) = 8
       /\ Range(feature_order.items) = Range(ColumnMapping) \ {"Attrition"}
       /\ Answered("features")
            => DOMAIN last.resp.body.features = Range(feature_order.items)
       /\ (Answered("predict") /\ Loaded /\ Complete(last.req))
            => /\ last.logged # "KeyError"
               /\ last.fed # None
                    => [i \in 1..Len(last.fed.cols) |-> last.fed.cols[i][1]]
                         = feature_order.items

\* the schema was served next to a loaded bundle
C10_Witness ==
  /\ Answered("features") /\ Loaded
  /\ Cardinality(DOMAIN last.resp.body.features) = 8

====
